---- MODULE Spec2Model ----
(***************************************************************************)
(* db-delta-tracker: row-level change capture by triggers into the deltas  *)
(* table (init/init.go) and replay of the deltas table into the restored   *)
(* database (cmd/main.go).                                                 *)
(*                                                                         *)
(* The source database is modelled with its transactions (the trigger      *)
(* runs inside the transaction of the statement that fires it), the        *)
(* deltas table with its SERIAL id and its DEFAULT CURRENT_TIMESTAMP       *)
(* column, and RestoreDatabase as one loop iteration per action.           *)
(***************************************************************************)
EXTENDS Integers, FiniteSets, Sequences, Bags, TLC

(***************************************************************************)
(* Bounds of the model.                                                    *)
(***************************************************************************)
MaxId == 2
MaxSerial == 4
MaxClock == 2
MaxStmts == 3
MaxRemoved == 1
MaxFaults == 1
MaxInstallRuns == 2
MaxOverwritten == 1

Tx == {"t1", "t2"}
Tables == {"users", "orders"}
Ids == 1..MaxId
Names == {"A", "B"}
Ages == {5}

\* The fixed row shape (id, name, age) of init.go's restoreTable and of
\* main.go's INSERT/UPDATE statements.
Row == [id : Ids, name : Names, age : Ages]

NoRow == [none |-> TRUE]

(***************************************************************************)
(* JSON payloads: row_to_json(NEW) stored in a JSONB column; a column the   *)
(* trigger's INSERT does not name is SQL NULL.                             *)
(***************************************************************************)
SqlNull == [t |-> "null"]
JNum(n) == [t |-> "number", n |-> n]
JStr(s) == [t |-> "string", s |-> s]

row_to_json(r) ==
    [t |-> "object",
     o |-> [id |-> JNum(r.id), name |-> JStr(r.name), age |-> JNum(r.age)]]

\* Column values of a row of any tracked table: text, boolean, NULL, and
\* integers up to bigint.  An integer is kept as its binary digits, most
\* significant first, so that 64-bit values keep every digit.
TextVal(str) == [k |-> "text", s |-> str]
BoolVal(b) == [k |-> "boolean", b |-> b]
NullVal == [k |-> "null"]
IntVal(bits) == [k |-> "integer", bits |-> bits]

JBool(b) == [t |-> "bool", b |-> b]
JInt(bits) == [t |-> "number", bits |-> bits]

\* row_to_json(NEW) for such a row: a JSON number carries every digit of the
\* integer, SQL NULL becomes the JSON value null.
to_json(v) ==
    IF v.k = "text" THEN JStr(v.s)
    ELSE IF v.k = "boolean" THEN JBool(v.b)
    ELSE IF v.k = "integer" THEN JInt(v.bits)
    ELSE [t |-> "jsonnull"]

row_to_json_any(S) == [t |-> "object", o |-> [c \in DOMAIN S |-> to_json(S[c])]]

(***************************************************************************)
(* The trigger of addTriggersToTables.                                     *)
(***************************************************************************)
\* CREATE TRIGGER ... AFTER INSERT OR UPDATE OR DELETE ON t FOR EACH ROW
TriggerFires_NoDelete(op) == op \in {"INSERT", "UPDATE"}

TriggerFires(op) == op \in {"INSERT", "UPDATE", "DELETE"}

\* log_<table>_changes(): the column values of the row the function inserts
\* into deltas; id and timestamp are left to the column defaults.
log_changes_UpdateWithoutOld(TG_OP, TG_TABLE_NAME, OLD_ROW, NEW_ROW) ==
    IF TG_OP = "INSERT"
    THEN [action |-> "INSERT", table_name |-> TG_TABLE_NAME,
          old_data |-> SqlNull, new_data |-> row_to_json(NEW_ROW)]
    ELSE IF TG_OP = "UPDATE"
    THEN [action |-> "UPDATE", table_name |-> TG_TABLE_NAME,
          old_data |-> SqlNull, new_data |-> row_to_json(NEW_ROW)]
    ELSE [action |-> "DELETE", table_name |-> TG_TABLE_NAME,
          old_data |-> row_to_json(OLD_ROW), new_data |-> SqlNull]

log_changes(TG_OP, TG_TABLE_NAME, OLD_ROW, NEW_ROW) ==
    IF TG_OP = "INSERT"
    THEN [action |-> "INSERT", table_name |-> TG_TABLE_NAME,
          old_data |-> SqlNull, new_data |-> row_to_json(NEW_ROW)]
    ELSE IF TG_OP = "UPDATE"
    THEN [action |-> "UPDATE", table_name |-> TG_TABLE_NAME,
          old_data |-> row_to_json(OLD_ROW), new_data |-> row_to_json(NEW_ROW)]
    ELSE [action |-> "DELETE", table_name |-> TG_TABLE_NAME,
          old_data |-> row_to_json(OLD_ROW), new_data |-> SqlNull]

\* The deltas row as stored: id SERIAL PRIMARY KEY, timestamp TIMESTAMPTZ
\* DEFAULT CURRENT_TIMESTAMP (the start time of the writing transaction).
DeltaRow(cols, serial, now) ==
    [id |-> serial, action |-> cols.action, table_name |-> cols.table_name,
     old_data |-> cols.old_data, new_data |-> cols.new_data,
     timestamp |-> now]

(***************************************************************************)
(* State.                                                                  *)
(***************************************************************************)
VARIABLES
    src,        \* committed rows of the tracked tables of the source
    deltas,     \* committed rows of the deltas table
    seq,        \* last value handed out by deltas_id_seq
    clock,      \* the source server's clock
    txState,    \* per session: "idle" or "open"
    txStart,    \* per session: CURRENT_TIMESTAMP of the open transaction
    txLocks,    \* per session: the <<table, id>> keys the transaction wrote
    txRows,     \* per session: its uncommitted versions of those keys
    txLog,      \* per session: the deltas rows its triggers wrote
    txMuts,     \* per session: the row mutations its statements made
    txStmts,    \* per session: the number of statements it executed
    muts,       \* bag of the row mutations of committed transactions
    stmts,      \* number of mutating statements of committed transactions
    issued,     \* number of statements issued so far, rolled back or not
    removed,    \* deltas rows an operator deleted before replay
    phase,      \* "capture", "edit" (operator edits the log), "replay"
    targetTables, \* tables that exist in the restored database
    restored,   \* rows of the tables of the restored database
    rows,       \* RestoreDatabase: deltas rows the cursor has yet to return
    trail,      \* RestoreDatabase: the deltas read so far, each with its outcome
    result,     \* RestoreDatabase: "none", "running", "ok" (nil), "error"
    run,        \* number of the RestoreDatabase run (0: none yet)
    mode,       \* target of the current run: "fresh" or "same" as the last run
    first,      \* what the first run left: its result and the target's rows
    faults,     \* connection failures during the replay run so far
    hooks,      \* tables of the source that have their <table>_trigger
    funcs,      \* tables of the source that have their log_<table>_changes()
    inst,       \* addTriggersToTables: "none", "running", "ok" (nil), "error"
    instRun,    \* number of the addTriggersToTables run (0: none yet)
    pending,    \* addTriggersToTables: table names its cursor has yet to return
    instFailed, \* the error addTriggersToTables returned: its table and cause
    instBefore, \* the tables that had their trigger when the run began
    backup,     \* backupAndRestoreTables: "none", "running", "ok" (nil)
    bpending,   \* backupAndRestoreTables: table names its cursor has yet to return
    corrupted,  \* deltas rows whose payload an operator overwrote
    snap,       \* codec: the row snapshot handed to row_to_json
    payload,    \* codec: the JSONB payload stored for it
    decoded,    \* codec: the map json.Unmarshal made of the payload
    stage       \* codec: "idle", "raw", "encoded", "decoded"

captureVars == <<src, deltas, seq, clock, txState, txStart, txLocks, txRows,
                 txLog, txMuts, txStmts, muts, stmts, issued>>
replayVars == <<targetTables, restored, rows, trail, result, run, mode, first,
                faults>>
installVars == <<hooks, funcs, inst, instRun, pending, instFailed, instBefore,
                 backup, bpending>>
codecVars == <<snap, payload, decoded, stage>>
vars == <<src, deltas, seq, clock, txState, txStart, txLocks, txRows,
          txLog, txMuts, txStmts, muts, stmts, issued, removed, phase,
          targetTables, restored, rows, trail, result, run, mode, first, faults,
          hooks, funcs, inst, instRun, pending, instFailed, instBefore,
          backup, bpending,
          corrupted, snap, payload, decoded, stage>>

Range(s) == {s[i] : i \in DOMAIN s}

\* All orders in which the rows of S can be visited.
Orders(S) ==
    {f \in [1..Cardinality(S) -> S] : \A i, j \in DOMAIN f : f[i] = f[j] => i = j}

RowIds(rs) == {r.id : r \in rs}

\* What a statement of session t sees of table tb: the committed rows, with
\* the session's own uncommitted versions in place of the keys it wrote.
View(t, tb) ==
    {r \in src[tb] : <<tb, r.id>> \notin txLocks[t]} \cup txRows[t][tb]

\* Keys write-locked by the other open transactions.
LockedByOthers(t) == UNION {txLocks[u] : u \in Tx \ {t}}

NoRun == [none |-> TRUE]

\* The tables of the public schema of the source: createDeltasTable has run
\* when addTriggersToTables lists them.
PublicTables == Tables \cup {"deltas"}

NoError == [none |-> TRUE]

NoSnap == [none |-> TRUE]

\* The source database with nothing of init.go done on it yet.
InitSource ==
    /\ src = [tb \in Tables |-> {}]
    /\ deltas = {}
    /\ seq = 0
    /\ clock = 0
    /\ txState = [t \in Tx |-> "idle"]
    /\ txStart = [t \in Tx |-> 0]
    /\ txLocks = [t \in Tx |-> {}]
    /\ txRows = [t \in Tx |-> [tb \in Tables |-> {}]]
    /\ txLog = [t \in Tx |-> {}]
    /\ txMuts = [t \in Tx |-> <<>>]
    /\ txStmts = [t \in Tx |-> 0]
    /\ muts = EmptyBag
    /\ stmts = 0
    /\ issued = 0
    /\ removed = {}
    /\ phase = "capture"
    /\ targetTables = {}
    /\ restored = [tb \in Tables |-> {}]
    /\ rows = {}
    /\ trail = <<>>
    /\ result = "none"
    /\ run = 0
    /\ mode = "fresh"
    /\ first = NoRun
    /\ faults = 0
    /\ corrupted = {}

CodecIdle ==
    /\ snap = NoSnap
    /\ payload = [t |-> "null"]
    /\ decoded = [g |-> "nilmap"]
    /\ stage = "idle"

NotInstalled ==
    /\ hooks = {}
    /\ funcs = {}
    /\ inst = "none"
    /\ instRun = 0
    /\ pending = {}
    /\ instFailed = NoError
    /\ instBefore = {}
    /\ backup = "none"
    /\ bpending = {}

\* init.go has run on the source while its tables were empty: every table
\* has its trigger and the restored database its empty copies.
Installed ==
    /\ hooks = Tables
    /\ funcs = Tables
    /\ inst = "ok"
    /\ instRun = 1
    /\ pending = {}
    /\ instFailed = NoError
    /\ instBefore = {}
    /\ backup = "ok"
    /\ bpending = {}

Init == InitSource /\ CodecIdle /\ Installed

InitFresh == InitSource /\ CodecIdle /\ NotInstalled

(***************************************************************************)
(* Transactions of the source database.                                    *)
(***************************************************************************)
Begin(t) ==
    /\ phase = "capture"
    /\ txState[t] = "idle"
    /\ clock < MaxClock
    /\ clock' = clock + 1
    /\ txState' = [txState EXCEPT ![t] = "open"]
    /\ txStart' = [txStart EXCEPT ![t] = clock + 1]
    /\ UNCHANGED <<src, deltas, seq, txLocks, txRows, txLog, txMuts, txStmts,
                   muts, stmts, issued, removed, corrupted, phase, replayVars,
                   installVars, codecVars>>

\* The deltas rows written by the row triggers for the row mutations ms (a
\* sequence, in the order the statement visits the rows).
FiredDeltas(t, ms) ==
    LET fired == SelectSeq(ms, LAMBDA m : m.tbl \in hooks /\ TriggerFires(m.op))
    IN  {DeltaRow(log_changes(fired[i].op, fired[i].tbl, fired[i].old, fired[i].new),
                  seq + i, txStart[t]) : i \in DOMAIN fired}

\* One mutating statement of session t on table tb with row mutations ms.
Statement(t, tb, ms) ==
    LET gone == {ms[i].old : i \in DOMAIN ms} \ {NoRow}
        come == {ms[i].new : i \in DOMAIN ms} \ {NoRow}
        keys == {<<tb, r.id>> : r \in gone \cup come}
        written == FiredDeltas(t, ms)
    IN  /\ phase = "capture"
        /\ txState[t] = "open"
        /\ issued < MaxStmts
        /\ keys \cap LockedByOthers(t) = {}
        /\ seq + Cardinality(written) <= MaxSerial
        \* a trigger on deltas would fire on the trigger's own INSERT, without
        \* end: the statement fails with the stack depth exceeded
        /\ written # {} => "deltas" \notin hooks
        /\ txLocks' = [txLocks EXCEPT ![t] = @ \cup keys]
        /\ txRows' = [txRows EXCEPT ![t][tb] =
                        {r \in (View(t, tb) \ gone) \cup come :
                            <<tb, r.id>> \in txLocks[t] \cup keys}]
        /\ txLog' = [txLog EXCEPT ![t] = @ \cup written]
        /\ seq' = seq + Cardinality(written)
        /\ txMuts' = [txMuts EXCEPT ![t] = @ \o ms]
        /\ txStmts' = [txStmts EXCEPT ![t] = @ + 1]
        /\ issued' = issued + 1
        /\ UNCHANGED <<src, deltas, clock, txState, txStart, muts, stmts,
                       removed, corrupted, phase, replayVars,
                   installVars, codecVars>>

\* INSERT INTO tb (id, name, age) VALUES (r.id, r.name, r.age); a key that
\* exists is a unique violation, which aborts the transaction (Rollback).
Insert(t, tb, r) ==
    /\ txState[t] = "open"
    /\ r.id \notin RowIds(View(t, tb))
    /\ Statement(t, tb, <<[op |-> "INSERT", tbl |-> tb, old |-> NoRow, new |-> r]>>)

\* UPDATE tb SET name = nm, age = ag WHERE id IN S
Update(t, tb, S, nm, ag) ==
    /\ txState[t] = "open"
    /\ \E ord \in Orders({r \in View(t, tb) : r.id \in S}) :
        Statement(t, tb,
            [i \in DOMAIN ord |->
                [op |-> "UPDATE", tbl |-> tb, old |-> ord[i],
                 new |-> [ord[i] EXCEPT !.name = nm, !.age = ag]]])

\* UPDATE tb SET id = new WHERE id = old
UpdateId(t, tb, old, new) ==
    /\ txState[t] = "open"
    /\ new \notin RowIds(View(t, tb))
    /\ \E r \in View(t, tb) :
        /\ r.id = old
        /\ Statement(t, tb,
              <<[op |-> "UPDATE", tbl |-> tb, old |-> r,
                 new |-> [r EXCEPT !.id = new]]>>)

\* DELETE FROM tb WHERE id IN S
Delete(t, tb, S) ==
    /\ txState[t] = "open"
    /\ \E ord \in Orders({r \in View(t, tb) : r.id \in S}) :
        Statement(t, tb,
            [i \in DOMAIN ord |->
                [op |-> "DELETE", tbl |-> tb, old |-> ord[i], new |-> NoRow]])

SeqToBag(s) ==
    [e \in Range(s) |-> Cardinality({i \in DOMAIN s : s[i] = e})]

CloseTx(t) ==
    /\ txState' = [txState EXCEPT ![t] = "idle"]
    /\ txStart' = [txStart EXCEPT ![t] = 0]
    /\ txLocks' = [txLocks EXCEPT ![t] = {}]
    /\ txRows' = [txRows EXCEPT ![t] = [tb \in Tables |-> {}]]
    /\ txLog' = [txLog EXCEPT ![t] = {}]
    /\ txMuts' = [txMuts EXCEPT ![t] = <<>>]
    /\ txStmts' = [txStmts EXCEPT ![t] = 0]

\* COMMIT: the business rows and the deltas rows the triggers wrote become
\* visible together.
Commit(t) ==
    /\ phase = "capture"
    /\ txState[t] = "open"
    /\ src' = [tb \in Tables |-> View(t, tb)]
    /\ deltas' = deltas \cup txLog[t]
    /\ muts' = muts (+) SeqToBag(txMuts[t])
    /\ stmts' = stmts + txStmts[t]
    /\ CloseTx(t)
    /\ UNCHANGED <<seq, clock, issued, removed, corrupted, phase, replayVars,
                   installVars, codecVars>>

\* ROLLBACK: both are discarded; the sequence values stay used.
Rollback_KeepsDeltas(t) ==
    /\ phase = "capture"
    /\ txState[t] = "open"
    /\ deltas' = deltas \cup txLog[t]
    /\ CloseTx(t)
    /\ UNCHANGED <<src, seq, clock, muts, stmts, issued,
                   removed, corrupted, phase, replayVars,
                   installVars, codecVars>>

Rollback(t) ==
    /\ phase = "capture"
    /\ txState[t] = "open"
    /\ CloseTx(t)
    /\ UNCHANGED <<src, deltas, seq, clock, muts, stmts, issued,
                   removed, corrupted, phase, replayVars,
                   installVars, codecVars>>

Capture(sessions) ==
    \E t \in sessions :
        \/ Begin(t)
        \/ \E tb \in Tables, r \in Row : Insert(t, tb, r)
        \/ \E tb \in Tables, S \in SUBSET Ids, nm \in Names, ag \in Ages :
              Update(t, tb, S, nm, ag)
        \/ \E tb \in Tables, old \in Ids, new \in Ids : UpdateId(t, tb, old, new)
        \/ \E tb \in Tables, S \in SUBSET Ids : Delete(t, tb, S)
        \/ Commit(t)

(***************************************************************************)
(* The operator's edit of the log (README: "Feel free to edit the deltas   *)
(* table to remove any commands that delete important data").              *)
(***************************************************************************)
AllIdle == \A t \in Tx : txState[t] = "idle"

RemoveDelta(d) ==
    /\ phase \in {"capture", "edit"}
    /\ AllIdle
    /\ d \in deltas
    /\ d.action = "DELETE"
    /\ Cardinality(removed) < MaxRemoved
    /\ deltas' = deltas \ {d}
    /\ removed' = removed \cup {d}
    /\ phase' = "edit"
    /\ UNCHANGED <<src, seq, clock, txState, txStart, txLocks, txRows, txLog,
                   txMuts, txStmts, muts, stmts, issued, corrupted, replayVars,
                   installVars, codecVars>>

\* What an UPDATE of the log can leave in a JSONB column that is no row
\* snapshot: SQL NULL, the JSON value null, a JSON string.
JsonNull == [t |-> "jsonnull"]

Overwrites == {SqlNull, JsonNull, JStr("x")}

\* The payload columns RestoreDatabase reads for a delta of action a.
PayloadsRead(a) ==
    IF a = "INSERT" THEN {"new_data"}
    ELSE IF a = "UPDATE" THEN {"old_data", "new_data"}
    ELSE IF a = "DELETE" THEN {"old_data"}
    ELSE {}

\* UPDATE deltas SET <col> = v WHERE id = d.id: the columns old_data and
\* new_data are nullable JSONB without any constraint.  Only overwrites of
\* a column the replay of d reads are followed.
OverwritePayload(d, col, v) ==
    /\ phase \in {"capture", "edit"}
    /\ AllIdle
    /\ d \in deltas
    /\ col \in PayloadsRead(d.action)
    /\ d[col] # v
    /\ Cardinality(corrupted) < MaxOverwritten
    /\ deltas' = (deltas \ {d}) \cup {[d EXCEPT ![col] = v]}
    /\ corrupted' = corrupted \cup {d.id}
    /\ phase' = "edit"
    /\ UNCHANGED <<src, seq, clock, txState, txStart, txLocks, txRows, txLog,
                   txMuts, txStmts, muts, stmts, issued, removed, replayVars,
                   installVars, codecVars>>

(***************************************************************************)
(* init/init.go: addTriggersToTables.  Every Exec is a statement of its    *)
(* own on the source, so the writes of other sessions fall between them.   *)
(***************************************************************************)
\* `if tableName == "deltas" { continue }`
SkipsLogTable_Never(tableName) == FALSE

SkipsLogTable(tableName) == tableName = "deltas"

\* The two Execs for one table: CREATE OR REPLACE FUNCTION, then CREATE
\* TRIGGER, which fails where the table has a trigger of that name.  funcErr
\* and trigErr are the Exec failing on the connection.
InstallTable_SwallowsError(tb, fs, hs, funcErr, trigErr) ==
    IF funcErr THEN [funcs |-> fs, hooks |-> hs, err |-> NoError]
    ELSE IF trigErr
    THEN [funcs |-> fs \cup {tb}, hooks |-> hs, err |-> NoError]
    ELSE IF tb \in hs
    THEN [funcs |-> fs \cup {tb}, hooks |-> hs, err |-> NoError]
    ELSE [funcs |-> fs \cup {tb}, hooks |-> hs \cup {tb}, err |-> NoError]

InstallTable(tb, fs, hs, funcErr, trigErr) ==
    IF funcErr
    THEN [funcs |-> fs, hooks |-> hs,
          err |-> [table |-> tb, cause |-> "function"]]
    ELSE IF trigErr
    THEN [funcs |-> fs \cup {tb}, hooks |-> hs,
          err |-> [table |-> tb, cause |-> "trigger"]]
    ELSE IF tb \in hs
    THEN [funcs |-> fs \cup {tb}, hooks |-> hs,
          err |-> [table |-> tb, cause |-> "exists"]]
    ELSE [funcs |-> fs \cup {tb}, hooks |-> hs \cup {tb}, err |-> NoError]

UnchangedByInstall ==
    UNCHANGED <<src, deltas, seq, clock, txState, txStart, txLocks, txRows,
                txLog, txMuts, txStmts, muts, stmts, issued, removed,
                corrupted, phase, replayVars, backup, bpending, codecVars>>

\* initDB: createDeltasTable (IF NOT EXISTS), then the query for the table
\* names of the public schema.
StartInstall ==
    /\ phase = "capture"
    /\ inst \in {"none", "ok", "error"}
    /\ backup # "running"
    /\ instRun < MaxInstallRuns
    /\ inst' = "running"
    /\ instRun' = instRun + 1
    /\ pending' = PublicTables
    /\ instFailed' = NoError
    /\ instBefore' = hooks
    /\ UNCHANGED <<hooks, funcs>>
    /\ UnchangedByInstall

\* A transaction that wrote rows of tb holds the table's ROW EXCLUSIVE lock
\* until it ends; CREATE TRIGGER takes SHARE ROW EXCLUSIVE and waits for it.
WrittenByOpenTx(tb) == \E t \in Tx : \E k \in txLocks[t] : k[1] = tb

\* One pass of `for rows.Next()` over the table names.
InstallStep(tb, funcErr, trigErr) ==
    /\ inst = "running"
    /\ tb \in pending
    /\ ~SkipsLogTable(tb) /\ ~funcErr => ~WrittenByOpenTx(tb)
    /\ funcErr \/ trigErr => ~SkipsLogTable(tb)
    /\ trigErr => ~funcErr
    /\ pending' = pending \ {tb}
    /\ IF SkipsLogTable(tb)
       THEN UNCHANGED <<hooks, funcs, inst, instFailed>>
       ELSE LET done == InstallTable(tb, funcs, hooks, funcErr, trigErr)
            IN  /\ funcs' = done.funcs
                /\ hooks' = done.hooks
                /\ inst' = IF done.err = NoError THEN "running" ELSE "error"
                /\ instFailed' = done.err
    /\ UNCHANGED <<instRun, instBefore>>
    /\ UnchangedByInstall

\* rows.Next() is false: `return nil`.
FinishInstall ==
    /\ inst = "running"
    /\ pending = {}
    /\ inst' = "ok"
    /\ UNCHANGED <<hooks, funcs, instRun, pending, instFailed, instBefore>>
    /\ UnchangedByInstall

(***************************************************************************)
(* cmd/main.go: decoding a payload and handing its fields to the driver.   *)
(***************************************************************************)
JNull == JsonNull
GoNil == [g |-> "nil"]
GoFloat(n) == [g |-> "float64", f |-> n]
GoStr(str) == [g |-> "string", s |-> str]
NilMap == [g |-> "nilmap"]

GoBool(b) == [g |-> "bool", b |-> b]

\* The significand of a float64 has 53 binary digits.
MantissaBits == 53

RECURSIVE Increment(_)
Increment(bits) ==
    IF bits = <<>> THEN <<1>>
    ELSE IF bits[Len(bits)] = 0
    THEN SubSeq(bits, 1, Len(bits) - 1) \o <<1>>
    ELSE Increment(SubSeq(bits, 1, Len(bits) - 1)) \o <<0>>

\* strconv.ParseFloat of an integer literal: the nearest float64, ties to
\* the even significand.
RoundToFloat64(bits) ==
    IF Len(bits) <= MantissaBits THEN bits
    ELSE LET head == SubSeq(bits, 1, MantissaBits)
             tail == SubSeq(bits, MantissaBits + 1, Len(bits))
             rest == \E i \in 2..Len(tail) : tail[i] = 1
             up == tail[1] = 1 /\ (rest \/ head[MantissaBits] = 1)
         IN  (IF up THEN Increment(head) ELSE head)
                 \o [i \in 1..Len(tail) |-> 0]

\* encoding/json into interface{}: every JSON number becomes a float64.
FromJSON(v) ==
    IF v.t = "number"
    THEN IF "bits" \in DOMAIN v
         THEN [g |-> "float64", bits |-> RoundToFloat64(v.bits)]
         ELSE GoFloat(v.n)
    ELSE IF v.t = "string" THEN GoStr(v.s)
    ELSE IF v.t = "bool" THEN GoBool(v.b)
    ELSE GoNil

\* json.Unmarshal(*raw, &m) with m a map[string]interface{}.
\* [err, m]: a payload that is no JSON object is an error, JSON null leaves
\* the map nil.
Unmarshal(raw) ==
    IF raw.t = "object"
    THEN [err |-> FALSE, m |-> [k \in DOMAIN raw.o |-> FromJSON(raw.o[k])]]
    ELSE IF raw = JNull THEN [err |-> FALSE, m |-> NilMap]
    ELSE [err |-> TRUE, m |-> NilMap]

\* `if delta.OldData != nil { json.Unmarshal(...) }`: a NULL column leaves
\* the map nil.
UnmarshalIfPresent(col) ==
    IF col = SqlNull THEN [err |-> FALSE, m |-> NilMap] ELSE Unmarshal(col)

\* m["key"] of a Go map: nil for a missing key and for a nil map.
Lookup(m, k) ==
    IF m = NilMap THEN GoNil
    ELSE IF k \in DOMAIN m THEN m[k]
    ELSE GoNil

\* The codec on its own: a row snapshot, the payload the trigger stores for
\* it, and the map RestoreDatabase decodes from the payload.
Ones(n) == [i \in 1..n |-> 1]
Zeros(n) == [i \in 1..n |-> 0]

Integers64 ==
    {<<1, 0, 1>>,                            \* 5
     <<1>> \o Zeros(MantissaBits),           \* 2^53
     <<1>> \o Zeros(MantissaBits - 1) \o <<1>>, \* 2^53 + 1
     Ones(MantissaBits),                     \* 2^53 - 1
     Ones(63)}                               \* 2^63 - 1, the largest bigint

Values ==
    {TextVal("A"), TextVal("B"), BoolVal(TRUE), BoolVal(FALSE), NullVal}
        \cup {IntVal(b) : b \in Integers64}

Snapshots == [{"id", "value"} -> Values]

Encode ==
    /\ stage = "raw"
    /\ payload' = row_to_json_any(snap)
    /\ stage' = "encoded"
    /\ UNCHANGED <<snap, decoded>>
    /\ UNCHANGED <<src, deltas, seq, clock, txState, txStart, txLocks, txRows,
                   txLog, txMuts, txStmts, muts, stmts, issued, removed,
                   corrupted, phase, replayVars, installVars>>

Decode ==
    /\ stage = "encoded"
    /\ decoded' = Unmarshal(payload).m
    /\ stage' = "decoded"
    /\ UNCHANGED <<snap, payload>>
    /\ UNCHANGED <<src, deltas, seq, clock, txState, txStart, txLocks, txRows,
                   txLog, txMuts, txStmts, muts, stmts, issued, removed,
                   corrupted, phase, replayVars, installVars>>

(***************************************************************************)
(* The restored database: a statement parameter as the value of an INT or  *)
(* a VARCHAR column, and the three statements RestoreDatabase executes.    *)
(***************************************************************************)
SqlInt(n) == [t |-> "int", n |-> n]
SqlText(str) == [t |-> "text", s |-> str]

\* The driver sends a float64 as its shortest decimal text and a string as
\* it is; the server reads the text as the column's type.
ToIntCol(gv) ==
    IF gv = GoNil THEN [err |-> FALSE, v |-> SqlNull]
    ELSE IF gv.g = "float64" THEN [err |-> FALSE, v |-> SqlInt(gv.f)]
    ELSE [err |-> TRUE, v |-> SqlNull]

ToTextCol(gv) ==
    IF gv = GoNil THEN [err |-> FALSE, v |-> SqlNull]
    ELSE IF gv.g = "float64" THEN [err |-> FALSE, v |-> SqlText(ToString(gv.f))]
    ELSE [err |-> FALSE, v |-> SqlText(gv.s)]

\* A row of the source as the restored database stores it.
SqlRow(r) == [id |-> SqlInt(r.id), name |-> SqlText(r.name), age |-> SqlInt(r.age)]

SqlRows(rs) == {SqlRow(r) : r \in rs}

\* INSERT INTO tb (id, name, age) VALUES ($1, $2, $3); id is the primary key.
ExecInsert(tbl, idv, namev, agev) ==
    LET id == ToIntCol(idv)
        name == ToTextCol(namev)
        age == ToIntCol(agev)
    IN  IF id.err \/ name.err \/ age.err \/ id.v = SqlNull
           \/ id.v \in {r.id : r \in tbl}
        THEN [err |-> TRUE, tbl |-> tbl]
        ELSE [err |-> FALSE,
              tbl |-> tbl \cup {[id |-> id.v, name |-> name.v, age |-> age.v]}]

\* UPDATE tb SET name = $1, age = $2 WHERE id = $3
ExecUpdate(tbl, namev, agev, idv) ==
    LET id == ToIntCol(idv)
        name == ToTextCol(namev)
        age == ToIntCol(agev)
    IN  IF id.err \/ name.err \/ age.err
        THEN [err |-> TRUE, tbl |-> tbl]
        ELSE [err |-> FALSE,
              tbl |-> {IF r.id = id.v /\ id.v # SqlNull
                       THEN [r EXCEPT !.name = name.v, !.age = age.v]
                       ELSE r : r \in tbl}]

\* DELETE FROM tb WHERE id = $1
ExecDelete(tbl, idv) ==
    LET id == ToIntCol(idv)
    IN  IF id.err
        THEN [err |-> TRUE, tbl |-> tbl]
        ELSE [err |-> FALSE,
              tbl |-> {r \in tbl : ~(r.id = id.v /\ id.v # SqlNull)}]

(***************************************************************************)
(* cmd/main.go: tableExists and the body of RestoreDatabase's loop.        *)
(***************************************************************************)
\* tableExists(restoredConn, name): queryErr is the QueryRow/Scan failing,
\* which is logged and answered false.
tableExists_IgnoresError(tt, name, queryErr) == name \in tt

tableExists(tt, name, queryErr) ==
    IF queryErr THEN FALSE ELSE name \in tt

\* What one pass of the loop returns: the table's rows after it, what
\* happened to the delta, and whether RestoreDatabase returns an error.
Pass(tbl, what, err) == [tbl |-> tbl, outcome |-> what, err |-> err]

\* `continue` after "Skipping delta for non-existent table".
SkipDelta_Abort(tbl) == Pass(tbl, "skipped", TRUE)

SkipDelta(tbl) == Pass(tbl, "skipped", FALSE)

\* case "INSERT": *delta.NewData is dereferenced unchecked; execErr is the
\* Exec failing for a reason other than the statement (connection loss).
ApplyInsert_IgnoreExecError(d, tbl, execErr) ==
    IF d.new_data = SqlNull THEN Pass(tbl, "panic", TRUE)
    ELSE LET new == Unmarshal(d.new_data)
             done == ExecInsert(tbl, Lookup(new.m, "id"), Lookup(new.m, "name"),
                                Lookup(new.m, "age"))
         IN  IF new.err THEN Pass(tbl, "undecodable", TRUE)
             ELSE IF execErr \/ done.err THEN Pass(tbl, "failed", FALSE)
             ELSE Pass(done.tbl, "applied", FALSE)

ApplyInsert(d, tbl, execErr) ==
    IF d.new_data = SqlNull THEN Pass(tbl, "panic", TRUE)
    ELSE LET new == Unmarshal(d.new_data)
             done == ExecInsert(tbl, Lookup(new.m, "id"), Lookup(new.m, "name"),
                                Lookup(new.m, "age"))
         IN  IF new.err THEN Pass(tbl, "undecodable", TRUE)
             ELSE IF execErr \/ done.err THEN Pass(tbl, "failed", TRUE)
             ELSE Pass(done.tbl, "applied", FALSE)

\* case "UPDATE"
ApplyUpdate(d, tbl, execErr) ==
    LET old == UnmarshalIfPresent(d.old_data)
        new == UnmarshalIfPresent(d.new_data)
        done == ExecUpdate(tbl, Lookup(new.m, "name"), Lookup(new.m, "age"),
                           Lookup(old.m, "id"))
    IN  IF old.err \/ new.err THEN Pass(tbl, "undecodable", TRUE)
        ELSE IF execErr \/ done.err THEN Pass(tbl, "failed", TRUE)
        ELSE Pass(done.tbl, "applied", FALSE)

\* case "DELETE"
ApplyDelete_NotFoundIsError(d, tbl, execErr) ==
    LET old == UnmarshalIfPresent(d.old_data)
        done == ExecDelete(tbl, Lookup(old.m, "id"))
    IN  IF old.err THEN Pass(tbl, "undecodable", TRUE)
        ELSE IF execErr \/ done.err \/ done.tbl = tbl THEN Pass(tbl, "failed", TRUE)
        ELSE Pass(done.tbl, "applied", FALSE)

ApplyDelete(d, tbl, execErr) ==
    LET old == UnmarshalIfPresent(d.old_data)
        done == ExecDelete(tbl, Lookup(old.m, "id"))
    IN  IF old.err THEN Pass(tbl, "undecodable", TRUE)
        ELSE IF execErr \/ done.err THEN Pass(tbl, "failed", TRUE)
        ELSE Pass(done.tbl, "applied", FALSE)

\* The loop body for delta d; the switch has no default, so an action that
\* is none of the three is passed over.
Iteration(d, tbl, tt, queryErr, execErr) ==
    IF ~tableExists(tt, d.table_name, queryErr) THEN SkipDelta(tbl)
    ELSE IF d.action = "INSERT" THEN ApplyInsert(d, tbl, execErr)
    ELSE IF d.action = "UPDATE" THEN ApplyUpdate(d, tbl, execErr)
    ELSE IF d.action = "DELETE" THEN ApplyDelete(d, tbl, execErr)
    ELSE Pass(tbl, "ignored", FALSE)

\* SELECT ... FROM deltas ORDER BY timestamp: the rows that may come next
\* are those with the least timestamp; the order among them is not fixed.
NextRows(rs) == {d \in rs : \A e \in rs : d.timestamp <= e.timestamp}

(***************************************************************************)
(* init/init.go: backupAndRestoreTables.                                   *)
(***************************************************************************)
\* backupTable: json.Marshal of the row map that SELECT * scanned (the
\* driver hands an integer column over as int64, a varchar as string).
MarshalRow(r) ==
    [t |-> "object",
     o |-> [id |-> JNum(r.id), name |-> JStr(r.name), age |-> JNum(r.age)]]

\* restoreTable: the rows of the file are unmarshalled and inserted one by
\* one; the first Exec that fails ends it.
RECURSIVE restoreTable(_, _)
restoreTable(tbl, file) ==
    IF file = {} THEN [err |-> FALSE, tbl |-> tbl]
    ELSE LET j == CHOOSE x \in file : TRUE
             row == Unmarshal(j).m
             done == ExecInsert(tbl, Lookup(row, "id"), Lookup(row, "name"),
                                Lookup(row, "age"))
         IN  IF done.err THEN done ELSE restoreTable(done.tbl, file \ {j})

UnchangedByBackup ==
    UNCHANGED <<src, deltas, seq, clock, txState, txStart, txLocks, txRows,
                txLog, txMuts, txStmts, muts, stmts, issued, removed,
                corrupted, phase, rows, trail, result, run, mode, first,
                faults, hooks, funcs, inst, instRun, pending, instFailed,
                instBefore, codecVars>>

\* main of init.go after initDB returned nil: createRestoredDatabase, then
\* the query for the table names.
StartBackup ==
    /\ phase = "capture"
    /\ inst = "ok"
    /\ backup = "none"
    /\ backup' = "running"
    /\ bpending' = PublicTables
    /\ targetTables' = {}
    /\ restored' = [tb \in Tables |-> {}]
    /\ UnchangedByBackup

\* backupTable(tb), one SELECT * of the committed rows, and restoreTable(tb)
\* into the restored database.  The copy of deltas has the columns id, name
\* and age; no statement of the replay names it, and its rows are not kept.
BackupTable(tb) ==
    /\ backup = "running"
    /\ tb \in bpending
    /\ bpending' = bpending \ {tb}
    /\ targetTables' = targetTables \cup {tb}
    /\ restored' = IF tb \in Tables
                   THEN [restored EXCEPT
                           ![tb] = restoreTable(@, {MarshalRow(r) : r \in src[tb]}).tbl]
                   ELSE restored
    /\ UNCHANGED backup
    /\ UnchangedByBackup

\* rows.Next() is false: `return nil`.
FinishBackup ==
    /\ backup = "running"
    /\ bpending = {}
    /\ backup' = "ok"
    /\ UNCHANGED <<bpending, targetTables, restored>>
    /\ UnchangedByBackup

(***************************************************************************)
(* RestoreDatabase.                                                        *)
(***************************************************************************)
TargetSchemas == {{"users"}, {"users", "orders"}}

EmptyTables == [tb \in Tables |-> {}]

UnchangedSource ==
    UNCHANGED <<src, deltas, seq, clock, txState, txStart, txLocks, txRows,
                txLog, txMuts, txStmts, muts, stmts, issued, removed,
                corrupted, installVars, codecVars>>

\* The first run: the query over deltas, against a pristine target holding
\* the tables tt, empty.
StartReplay(tt) ==
    /\ phase \in {"capture", "edit"}
    /\ AllIdle
    /\ phase' = "replay"
    /\ targetTables' = tt
    /\ restored' = EmptyTables
    /\ rows' = deltas
    /\ trail' = <<>>
    /\ result' = "running"
    /\ run' = 1
    /\ mode' = "fresh"
    /\ first' = NoRun
    /\ faults' = 0
    /\ UnchangedSource

\* One pass of `for rows.Next()`.  queryErr and execErr are failures of the
\* connection to the restored database during that pass.
ReplayStep(d, queryErr, execErr) ==
    /\ phase = "replay"
    /\ result = "running"
    /\ d \in NextRows(rows)
    /\ queryErr => d.table_name \in targetTables
    /\ execErr => ~queryErr /\ d.table_name \in targetTables
    /\ queryErr \/ execErr => faults < MaxFaults
    /\ faults' = IF queryErr \/ execErr THEN faults + 1 ELSE faults
    /\ LET pass == Iteration(d, restored[d.table_name], targetTables,
                             queryErr, execErr)
       IN  /\ restored' = [restored EXCEPT ![d.table_name] = pass.tbl]
           /\ trail' = Append(trail,
                  [d |-> d, outcome |-> pass.outcome,
                   fault |-> IF queryErr THEN "query"
                             ELSE IF execErr THEN "exec" ELSE "none"])
           /\ result' = IF pass.err THEN "error" ELSE "running"
    /\ rows' = rows \ {d}
    /\ UNCHANGED <<phase, targetTables, run, mode, first>>
    /\ UnchangedSource

\* rows.Next() is false: `return nil`.
Return ==
    /\ phase = "replay"
    /\ result = "running"
    /\ rows = {}
    /\ result' = "ok"
    /\ UNCHANGED <<phase, targetTables, restored, rows, trail, run, mode, first,
                   faults>>
    /\ UnchangedSource

\* rows.Next() is false because reading the next row failed: the loop ends
\* as it does after the last row, and rows.Err() is not looked at.
CursorFails ==
    /\ phase = "replay"
    /\ result = "running"
    /\ rows # {}
    /\ faults < MaxFaults
    /\ faults' = faults + 1
    /\ result' = "ok"
    /\ UNCHANGED <<phase, targetTables, restored, rows, trail, run, mode, first>>
    /\ UnchangedSource

\* main.go is run again over the same log: into the target the first run
\* left ("same") or into another pristine target with the same tables.
Rerun(m) ==
    /\ phase = "replay"
    /\ run = 1
    /\ result \in {"ok", "error"}
    /\ first' = [result |-> result, restored |-> restored]
    /\ run' = 2
    /\ mode' = m
    /\ restored' = IF m = "same" THEN restored ELSE EmptyTables
    /\ rows' = deltas
    /\ trail' = <<>>
    /\ result' = "running"
    /\ UNCHANGED <<phase, targetTables, faults>>
    /\ UnchangedSource

\* main.go run against the restored database as init.go left it.
StartReplayRestored ==
    /\ phase = "capture"
    /\ AllIdle
    /\ backup = "ok"
    /\ phase' = "replay"
    /\ rows' = deltas
    /\ trail' = <<>>
    /\ result' = "running"
    /\ run' = 1
    /\ mode' = "same"
    /\ first' = NoRun
    /\ faults' = 0
    /\ UNCHANGED <<targetTables, restored>>
    /\ UnchangedSource

Replay ==
    \/ \E tt \in TargetSchemas : StartReplay(tt)
    \/ \E d \in rows, queryErr \in BOOLEAN, execErr \in BOOLEAN :
          ReplayStep(d, queryErr, execErr)
    \/ Return
    \/ CursorFails

Next ==
    \/ Capture({"t1"})
    \/ \E d \in deltas : RemoveDelta(d)
    \/ Replay

Spec == Init /\ [][Next]_vars

\* main.go run twice over the log, the connection to the restored database
\* holding throughout.
NextRerun ==
    \/ Capture({"t1"})
    \/ \E d \in deltas : RemoveDelta(d)
    \/ \E tt \in TargetSchemas : StartReplay(tt)
    \/ \E d \in rows : ReplayStep(d, FALSE, FALSE)
    \/ Return
    \/ \E m \in {"fresh", "same"} : Rerun(m)

SpecRerun == Init /\ [][NextRerun]_vars

\* The source database alone, with concurrent sessions and rollbacks.
NextCapture ==
    \/ Capture(Tx)
    \/ \E t \in Tx : Rollback(t)

SpecCapture == Init /\ [][NextCapture]_vars

\* main.go over a log in which an operator overwrote a payload, the
\* connections holding.
NextEdited ==
    \/ Capture({"t1"})
    \/ \E d \in deltas, col \in {"old_data", "new_data"}, v \in Overwrites :
          OverwritePayload(d, col, v)
    \/ \E tt \in TargetSchemas : StartReplay(tt)
    \/ \E d \in rows : ReplayStep(d, FALSE, FALSE)
    \/ Return

SpecEdited == Init /\ [][NextEdited]_vars

\* The codec applied to every snapshot of Snapshots.
InitCodec ==
    /\ InitSource
    /\ Installed
    /\ snap \in Snapshots
    /\ payload = SqlNull
    /\ decoded = NilMap
    /\ stage = "raw"

NextCodec == Encode \/ Decode

SpecCodec == InitCodec /\ [][NextCodec]_vars

\* addTriggersToTables on a source in use, run up to MaxInstallRuns times,
\* with the inserts and deletes of a session falling between its steps.
NextInstall ==
    \/ Begin("t1")
    \/ \E tb \in Tables, r \in Row : Insert("t1", tb, r)
    \/ \E tb \in Tables, S \in SUBSET Ids : Delete("t1", tb, S)
    \/ Commit("t1")
    \/ StartInstall
    \/ \E tb \in pending, funcErr \in BOOLEAN, trigErr \in BOOLEAN :
          InstallStep(tb, funcErr, trigErr)
    \/ FinishInstall

SpecInstall == InitFresh /\ [][NextInstall]_vars

\* init.go run once on a source in use, its connection holding, then
\* main.go: the installer, the backup and the replay, with the writes of a
\* session falling between their steps.
NextInit ==
    \/ Capture({"t1"})
    \/ instRun = 0 /\ StartInstall
    \/ \E tb \in pending : InstallStep(tb, FALSE, FALSE)
    \/ FinishInstall
    \/ StartBackup
    \/ \E tb \in bpending : BackupTable(tb)
    \/ FinishBackup
    \/ StartReplayRestored
    \/ \E d \in rows : ReplayStep(d, FALSE, FALSE)
    \/ Return

SpecInit == InitFresh /\ [][NextInit]_vars

(***************************************************************************)
(* Properties.                                                             *)
(***************************************************************************)
Last(s) == s[Len(s)]

Returned == phase = "replay" /\ result \in {"ok", "error"}

\* A pass of the loop has just read a delta.
ReadOne == Len(trail') = Len(trail) + 1

\* The id a payload carries, as the restored database stores it.
PayloadId(p) == SqlInt(p.o.id.n)

\* The row a payload carries, as the restored database stores it.
PayloadRow(p) ==
    [id |-> SqlInt(p.o.id.n), name |-> SqlText(p.o.name.s), age |-> SqlInt(p.o.age.n)]

\* C1: a first run over the full, unmodified log into a pristine target,
\* with no connection failure, leaves every table of the target with exactly
\* the rows the source table has.
FullReplayReproducesSource ==
    (Returned /\ run = 1 /\ removed = {} /\ faults = 0)
        => \A tb \in targetTables : restored[tb] = SqlRows(src[tb])

\* C2: the deltas are applied in one total order: ascending timestamp, and
\* ascending id among deltas of the same timestamp.
ReplayOrderIsTimestampThenId ==
    \A i, j \in DOMAIN trail :
        (i < j /\ trail[i].outcome = "applied" /\ trail[j].outcome = "applied")
              => \/ trail[i].d.timestamp < trail[j].d.timestamp
                 \/ /\ trail[i].d.timestamp = trail[j].d.timestamp
                    /\ trail[i].d.id < trail[j].d.id

\* C3: a second run over the same log into another pristine target with the
\* same tables, no connection failing in either run, ends with the same
\* rows and the same outcome as the first.
ReplayIsDeterministic ==
    (Returned /\ run = 2 /\ mode = "fresh" /\ faults = 0)
        => restored = first.restored /\ result = first.result

\* C4: a pass that reads a delta whose table does not exist in the target
\* skips it: the target is unchanged, no error is returned, and the deltas
\* not yet read are still to be read.
MissingTableIsSkipped ==
    [][(ReadOne /\ Last(trail').d.table_name \notin targetTables)
         => /\ Last(trail').outcome = "skipped"
            /\ restored' = restored
            /\ result' = "running"
            /\ rows' = rows \ {Last(trail').d}]_vars

\* C4 witness: a delta was skipped for its missing table and a later delta
\* was applied.
SkippedThenApplied ==
    \E i, j \in DOMAIN trail :
        /\ i < j
        /\ trail[i].d.table_name \notin targetTables
        /\ trail[i].outcome = "skipped"
        /\ trail[j].outcome = "applied"
        /\ restored[trail[j].d.table_name] # {}

\* The identifier of the row delta d deleted is used again later in the log.
IdUsedAgain(d) ==
    \E e \in deltas :
        /\ e.id > d.id
        /\ e.table_name = d.table_name
        /\ e.new_data # SqlNull
        /\ PayloadId(e.new_data) = PayloadId(d.old_data)

\* C5: with a DELETE delta removed from the log (and the row's identifier
\* not used again after it), the first run into a pristine target, with no
\* connection failure, returns without error and the row the DELETE removed
\* is in the target table with the values it had before the delete.
RemovedDeleteKeepsRow ==
    \A d \in removed :
        (Returned /\ run = 1 /\ faults = 0 /\ d.table_name \in targetTables
            /\ ~IdUsedAgain(d))
        => /\ result = "ok"
           /\ PayloadRow(d.old_data) \in restored[d.table_name]

\* The target rejects the statement of the pass that has just read a delta:
\* the Exec fails on the connection, or it is an INSERT of an id the table
\* holds already (duplicate key).
Rejected ==
    LET e == Last(trail')
    IN  \/ e.fault = "exec"
        \/ /\ e.fault = "none"
           /\ e.d.table_name \in targetTables
           /\ e.d.action = "INSERT"
           /\ PayloadId(e.d.new_data) \in {r.id : r \in restored[e.d.table_name]}

\* C6 as stated: a second run over a non-empty log into the target a first
\* successful run left returns an error (no connection failing in either).
SecondRunSameTargetFails ==
    (Returned /\ run = 2 /\ mode = "same" /\ first.result = "ok" /\ deltas # {}
        /\ faults = 0)
        => result = "error"

\* C6 amended: in a second run into the same target a pass returns an error
\* exactly when the target rejects its statement, which with the connection
\* holding is the INSERT of an id already present.  An UPDATE or a DELETE of
\* a row that is not there changes nothing and is no error.
SecondRunFailsOnlyOnRejectedStatement ==
    [][(ReadOne /\ run = 2 /\ mode = "same")
         => /\ (result' = "error") <=> Rejected
            /\ Last(trail').d.action \in {"UPDATE", "DELETE"}
                  /\ Last(trail').fault = "none" => result' = "running"]_vars

\* C6 witness: the second run into the same target stopped at a duplicate
\* key, no connection having failed.
SecondRunHitDuplicateKey ==
    /\ Returned /\ run = 2 /\ mode = "same" /\ first.result = "ok"
    /\ faults = 0
    /\ result = "error"
    /\ Last(trail).d.action = "INSERT"
    /\ Last(trail).outcome = "failed"

\* C7: when the target rejects the statement of a delta, RestoreDatabase
\* returns an error, the target keeps what the earlier deltas did to it, and
\* once the error is returned nothing more is read or applied.
FailureStopsReplayWithoutRollback ==
    [][/\ (ReadOne /\ Rejected)
           => result' = "error" /\ restored' = restored
       /\ (result = "error" /\ run' = run)
           => restored' = restored /\ trail' = trail /\ rows' = rows
              /\ result' = "error"]_vars

\* C7 witness: the run returned an error at a delta after applying an
\* earlier one, whose effect is still in the target, and with deltas unread.
FailedAfterApplying ==
    /\ result = "error"
    /\ Len(trail) >= 2
    /\ trail[1].outcome = "applied"
    /\ trail[1].d.action = "INSERT"
    /\ Last(trail).outcome = "failed"
    /\ PayloadRow(trail[1].d.new_data) \in restored[trail[1].d.table_name]
    /\ rows # {}

\* What the trigger is to write for the row mutation m.
Expected(m) ==
    [action |-> m.op, table_name |-> m.tbl,
     old_data |-> IF m.old = NoRow THEN SqlNull ELSE row_to_json(m.old),
     new_data |-> IF m.new = NoRow THEN SqlNull ELSE row_to_json(m.new)]

Content(d) ==
    [action |-> d.action, table_name |-> d.table_name,
     old_data |-> d.old_data, new_data |-> d.new_data]

\* C8 as stated: the log holds as many deltas as mutating statements were
\* committed.
OneDeltaPerStatement == Cardinality(deltas) = stmts

\* C8 amended: the log holds as many deltas as rows were inserted, updated
\* or deleted by the committed statements, and a transaction has written as
\* many as its statements have changed rows so far.
OneDeltaPerRowMutation ==
    /\ Cardinality(deltas) = BagCardinality(muts)
    /\ \A t \in Tx : Cardinality(txLog[t]) = Len(txMuts[t])

\* C8 witness: committed statements that changed more rows than there are
\* statements.
MoreDeltasThanStatements ==
    /\ stmts > 0
    /\ Cardinality(deltas) > stmts
    /\ AllIdle

\* C9: every delta the trigger has written, committed or not, has the shape
\* of its action and names the table of a row mutation of that action.
WellShaped(d) ==
    /\ d.action \in {"INSERT", "UPDATE", "DELETE"}
    /\ d.action = "INSERT" => d.new_data # SqlNull /\ d.old_data = SqlNull
    /\ d.action = "DELETE" => d.old_data # SqlNull /\ d.new_data = SqlNull
    /\ d.action = "UPDATE" => d.old_data # SqlNull /\ d.new_data # SqlNull

DeltaShape ==
    /\ \A d \in deltas :
          /\ WellShaped(d)
          /\ \E m \in BagToSet(muts) : m.op = d.action /\ m.tbl = d.table_name
    /\ \A t \in Tx : \A d \in txLog[t] :
          /\ WellShaped(d)
          /\ \E i \in DOMAIN txMuts[t] :
                txMuts[t][i].op = d.action /\ txMuts[t][i].tbl = d.table_name

\* C9 witness: the log holds a delta of each action.
AllThreeActionsLogged ==
    \A a \in {"INSERT", "UPDATE", "DELETE"} : \E d \in deltas : d.action = a

\* C10: the log holds exactly the row mutations of the committed
\* transactions, each as often as it was made; a delta of a transaction
\* that is open is not in the log.
AtomicCapture ==
    /\ \A c \in {Content(d) : d \in deltas} \cup {Expected(m) : m \in BagToSet(muts)} :
          Cardinality({d \in deltas : Content(d) = c})
            = BagCardinality([m \in {x \in BagToSet(muts) : Expected(x) = c}
                                |-> muts[m]])
    /\ \A t \in Tx : txLog[t] \cap deltas = {}

\* C10 witness: one transaction's deltas are in the log while another
\* transaction, which wrote a delta, was rolled back.
CommittedAndRolledBack ==
    /\ AllIdle
    /\ deltas # {}
    /\ seq > Cardinality(deltas)

\* C11: a run of addTriggersToTables on a source whose tables all have
\* their trigger already, its connection holding, returns nil and leaves
\* every table with its one trigger and its one function.
ReinstallSucceeds ==
    (/\ instBefore = Tables
     /\ inst \in {"ok", "error"}
     /\ inst = "error" => instFailed.cause = "exists")
        => inst = "ok" /\ hooks = Tables /\ funcs = Tables

\* The table a pass of the installer's loop has just visited.
Visited == CHOOSE tb \in pending : tb \notin pending'

\* The row mutations session t has made in this step.
NewMuts(t) == SubSeq(txMuts'[t], Len(txMuts[t]) + 1, Len(txMuts'[t]))

\* C12: a pass of the installer that leaves the table it visited without
\* its trigger makes it return an error naming that table; the pass has
\* touched no other table, the tables not yet visited get nothing while the
\* error stands, no trigger is ever removed, and every statement on a table
\* that has its trigger writes one delta per row it changes.
InstallFailureAborts ==
    [][/\ (inst = "running" /\ pending' # pending /\ Visited \notin hooks'
             /\ Visited # "deltas")
           => /\ inst' = "error"
              /\ instFailed' # NoError
              /\ instFailed'.table = Visited
              /\ hooks' = hooks
              /\ funcs' \subseteq funcs \cup {Visited}
       /\ (inst = "error" /\ instRun' = instRun)
           => /\ inst' = "error"
              /\ hooks' = hooks /\ funcs' = funcs /\ pending' = pending
       /\ hooks \subseteq hooks'
       /\ \A t \in Tx :
            Len(txMuts'[t]) > Len(txMuts[t])
              => Cardinality(txLog'[t] \ txLog[t])
                   = Len(SelectSeq(NewMuts(t), LAMBDA m : m.tbl \in hooks))]_vars

\* C12 witness: the first run returned an error naming a table that is
\* left without its trigger, after another table got its trigger; the log
\* holds a delta of that one and the table the error names has a row that
\* no delta records.
FailedInstallStillCaptures ==
    /\ inst = "error"
    /\ instRun = 1
    /\ instFailed.cause \in {"function", "trigger"}
    /\ instFailed.table \notin hooks
    /\ hooks # {}
    /\ \E d \in deltas : d.table_name \in hooks
    /\ src[instFailed.table] # {}
    /\ \A d \in deltas : d.table_name # instFailed.table

InitThenReplayReproducesSource ==
    (Returned /\ backup = "ok")
        => /\ result = "ok"
           /\ \A tb \in Tables : restored[tb] = SqlRows(src[tb])

\* C14: RestoreDatabase returns nil only after every delta of the log was
\* read and each was applied or skipped for a table the target lacks.
AllErrorsReturned ==
    (Returned /\ result = "ok")
        => /\ rows = {}
           /\ \A i \in DOMAIN trail :
                \/ trail[i].outcome = "applied"
                \/ /\ trail[i].outcome = "skipped"
                   /\ trail[i].d.table_name \notin targetTables

\* C16: a pass that applies an UPDATE delta to a table holding the row of
\* the id in old_data (the id in new_data being free) leaves that table with
\* the row replaced by the row in new_data, id included, and nothing else
\* changed.
UpdateSetsEveryField ==
    [][LET e == Last(trail')
           tb == e.d.table_name
       IN  (/\ ReadOne
            /\ e.d.action = "UPDATE"
            /\ e.fault = "none"
            /\ tb \in targetTables
            /\ PayloadId(e.d.old_data) \in {r.id : r \in restored[tb]}
            /\ \/ PayloadId(e.d.new_data) = PayloadId(e.d.old_data)
               \/ PayloadId(e.d.new_data) \notin {r.id : r \in restored[tb]})
           => restored' = [restored EXCEPT ![tb] =
                  {r \in @ : r.id # PayloadId(e.d.old_data)}
                      \cup {PayloadRow(e.d.new_data)}]]_vars

\* C18: a pass in which the query of tableExists fails skips its delta: the
\* target is unchanged, no error is returned, and the deltas not yet read
\* are still to be read.
TableCheckFailureSkips ==
    [][(ReadOne /\ Last(trail').fault = "query")
         => /\ Last(trail').outcome = "skipped"
            /\ restored' = restored
            /\ result' = "running"
            /\ rows' = rows \ {Last(trail').d}]_vars

\* C18 witness: a delta of a table the target has was skipped because the
\* query of tableExists failed, a later delta was applied, and the run
\* returned nil.
SkippedOnFailedCheck ==
    /\ Returned /\ result = "ok"
    /\ \E i, j \in DOMAIN trail :
        /\ i < j
        /\ trail[i].fault = "query"
        /\ trail[i].d.table_name \in targetTables
        /\ trail[i].outcome = "skipped"
        /\ trail[j].outcome = "applied"
        /\ trail[j].d.action = "INSERT"

\* A payload that is stored but is no row snapshot: the JSON value null or
\* another JSON value that is no object.
Undecodable(p) == p # SqlNull /\ p.t # "object"

\* C13: a delta read from the log (its table in the target) with a stored
\* payload its action needs that cannot be decoded into a row snapshot is
\* the last one read: the run has returned an error and the delta was
\* neither skipped nor applied.
UndecodablePayloadStopsReplay ==
    \A i \in DOMAIN trail :
        (/\ trail[i].d.table_name \in targetTables
         /\ \E col \in PayloadsRead(trail[i].d.action) : Undecodable(trail[i].d[col]))
        => /\ i = Len(trail)
           /\ result = "error"
           /\ trail[i].outcome \notin {"applied", "skipped"}

\* C17: an UPDATE delta read from the log (its table in the target) whose
\* old_data is NULL is the last one read: the run has returned an error and
\* no UPDATE was executed for it.
UpdateWithoutOldDataIsRejected ==
    \A i \in DOMAIN trail :
        (/\ trail[i].d.table_name \in targetTables
         /\ trail[i].d.action = "UPDATE"
         /\ trail[i].d.old_data = SqlNull)
        => /\ i = Len(trail)
           /\ result = "error"
           /\ trail[i].outcome # "applied"

\* The Go value that equals the column value v.
GoValueOf(v) ==
    IF v.k = "text" THEN GoStr(v.s)
    ELSE IF v.k = "boolean" THEN GoBool(v.b)
    ELSE IF v.k = "integer" THEN [g |-> "float64", bits |-> v.bits]
    ELSE GoNil

\* C15: the map decoded from the payload of a row snapshot has the columns
\* of the snapshot, each with the value the snapshot has.
RoundTripLossless ==
    stage = "decoded"
        => /\ DOMAIN decoded = DOMAIN snap
           /\ \A c \in DOMAIN snap : decoded[c] = GoValueOf(snap[c])
====
